---------------------------- MODULE Spec2Model ----------------------------
(***************************************************************************)
(* Verification model of the conversational banking backend               *)
(* (src/src/chatbot): the conversation state, the three flow handlers, the *)
(* in-memory services, the keyword router and the engine's per-turn        *)
(* algorithm handle_message.                                               *)
(*                                                                         *)
(* Python strings are TLA+ strings; they are taken apart with Len, SubSeq  *)
(* and \o.  None is the string NULL.  A Python float is a record           *)
(* [cls, neg, mant, exp] standing for (-1)^neg * mant * 10^exp.            *)
(***************************************************************************)
EXTENDS Integers, Sequences, FiniteSets, TLC

(***************************************************************************)
(* Bounds of the exploration.                                              *)
(***************************************************************************)
\* handle_message is explored while fewer than MaxCommits records exist in
\* the three in-memory services together.
MaxCommits == 1

\* the services are called directly while they hold fewer than MaxRecords
\* records together.
MaxRecords == 3

NULL == "null"

(***************************************************************************)
(* str methods used by the program.                                        *)
(***************************************************************************)
UPPERCASE == "ABCDEFGHIJKLMNOPQRSTUVWXYZ"
LOWERCASE == "abcdefghijklmnopqrstuvwxyz"
DIGITS == "0123456789"
WHITESPACE == {" ", "\t", "\n", "\r", "\f"}

CharAt(s, i) == SubSeq(s, i, i)

IndexIn(alphabet, c) ==
    IF \E i \in 1..Len(alphabet) : CharAt(alphabet, i) = c
    THEN CHOOSE i \in 1..Len(alphabet) : CharAt(alphabet, i) = c
    ELSE 0

\* the case mappings and the digit values, as tables
ToLowerCase == [c \in {CharAt(UPPERCASE, i) : i \in 1..26} |-> CharAt(LOWERCASE, IndexIn(UPPERCASE, c))]
ToUpperCase == [c \in {CharAt(LOWERCASE, i) : i \in 1..26} |-> CharAt(UPPERCASE, IndexIn(LOWERCASE, c))]
DigitValue == [c \in {CharAt(DIGITS, i) : i \in 1..10} |-> IndexIn(DIGITS, c) - 1]

IsUpper(c) == c \in DOMAIN ToLowerCase
IsLower(c) == c \in DOMAIN ToUpperCase
IsAlpha(c) == IsUpper(c) \/ IsLower(c)
IsDigit(c) == c \in DOMAIN DigitValue

LowerChar(c) == IF IsUpper(c) THEN ToLowerCase[c] ELSE c
UpperChar(c) == IF IsLower(c) THEN ToUpperCase[c] ELSE c

RECURSIVE Lower(_)
\* str.lower()
Lower(s) ==
    IF Len(s) = 0 THEN ""
    ELSE LowerChar(CharAt(s, 1)) \o Lower(SubSeq(s, 2, Len(s)))

RECURSIVE Strip(_)
\* str.strip(): leading and trailing whitespace removed
Strip(s) ==
    IF Len(s) > 0 /\ CharAt(s, 1) \in WHITESPACE
    THEN Strip(SubSeq(s, 2, Len(s)))
    ELSE IF Len(s) > 0 /\ CharAt(s, Len(s)) \in WHITESPACE
         THEN Strip(SubSeq(s, 1, Len(s) - 1))
         ELSE s

RECURSIVE RemoveChar(_, _)
\* str.replace(c, "") for a one-character c
RemoveChar(s, c) ==
    IF Len(s) = 0 THEN ""
    ELSE (IF CharAt(s, 1) = c THEN "" ELSE CharAt(s, 1))
         \o RemoveChar(SubSeq(s, 2, Len(s)), c)

\* the operator `in` on strings: keyword in cleaned
Contains(keyword, s) ==
    \E i \in 0..(Len(s) - Len(keyword)) : SubSeq(s, i + 1, i + Len(keyword)) = keyword

RECURSIVE TitleFrom(_, _)
TitleFrom(s, prevAlpha) ==
    IF Len(s) = 0 THEN ""
    ELSE LET c == CharAt(s, 1)
         IN  (IF prevAlpha THEN LowerChar(c) ELSE UpperChar(c))
             \o TitleFrom(SubSeq(s, 2, Len(s)), IsAlpha(c))

\* str.title()
Title(s) == TitleFrom(s, FALSE)

RECURSIVE JoinTitled(_)
\* ", ".join(account_type.title() for account_type in account_types)
JoinTitled(types) ==
    IF Len(types) = 0 THEN ""
    ELSE IF Len(types) = 1 THEN Title(types[1])
    ELSE Title(types[1]) \o ", " \o JoinTitled(Tail(types))

(***************************************************************************)
(* float(): parsing of a decimal literal, and the float operations the     *)
(* handlers use (comparison with zero, the format specification .2f).      *)
(* Literals with at most nine significant digits are represented exactly.  *)
(***************************************************************************)
NaN == [cls |-> "nan", neg |-> FALSE, mant |-> 0, exp |-> 0]
Infinity(neg) == [cls |-> "inf", neg |-> neg, mant |-> 0, exp |-> 0]
Zero(neg) == [cls |-> "fin", neg |-> neg, mant |-> 0, exp |-> 0]

FirstIndexOf(s, c) ==
    IF \E i \in 1..Len(s) : CharAt(s, i) = c
    THEN CHOOSE i \in 1..Len(s) :
            CharAt(s, i) = c /\ \A j \in 1..(i - 1) : CharAt(s, j) # c
    ELSE 0

\* digitpart ::= digit (["_"] digit)*
ValidDigitPart(d) ==
    /\ Len(d) > 0
    /\ \A i \in 1..Len(d) : IsDigit(CharAt(d, i)) \/ CharAt(d, i) = "_"
    /\ IsDigit(CharAt(d, 1))
    /\ IsDigit(CharAt(d, Len(d)))
    /\ \A i \in 1..(Len(d) - 1) : ~(CharAt(d, i) = "_" /\ CharAt(d, i + 1) = "_")

RECURSIVE ToNat(_)
ToNat(d) ==
    IF Len(d) = 0 THEN 0
    ELSE 10 * ToNat(SubSeq(d, 1, Len(d) - 1)) + DigitValue[CharAt(d, Len(d))]

RECURSIVE StripLeadingZeros(_)
StripLeadingZeros(d) ==
    IF Len(d) > 0 /\ CharAt(d, 1) = "0" THEN StripLeadingZeros(SubSeq(d, 2, Len(d))) ELSE d

RECURSIVE Pow10(_)
Pow10(n) == IF n <= 0 THEN 1 ELSE 10 * Pow10(n - 1)

RECURSIVE NumDigits(_)
NumDigits(n) == IF n < 10 THEN 1 ELSE 1 + NumDigits(n \div 10)

RECURSIVE Normalize(_, _, _)
\* the finite value (-1)^neg * mant * 10^exp as an IEEE-754 double: trailing
\* zeros of mant moved into exp, overflow to infinity above the largest
\* double (1.7976931348623157e308), underflow to zero below half of the
\* smallest subnormal (2.4703282292062327e-324)
Normalize(neg, mant, exp) ==
    IF mant = 0 THEN Zero(neg)
    ELSE IF mant % 10 = 0 THEN Normalize(neg, mant \div 10, exp + 1)
    ELSE LET order == NumDigits(mant) + exp
             lead9 == mant * Pow10(9 - NumDigits(mant))
         IN  IF order > 309 \/ (order = 309 /\ lead9 > 179769313) THEN Infinity(neg)
             ELSE IF order < -323 \/ (order = -323 /\ lead9 <= 247032822) THEN Zero(neg)
             ELSE [cls |-> "fin", neg |-> neg, mant |-> mant, exp |-> exp]

HasSign(t) == Len(t) > 0 /\ CharAt(t, 1) \in {"+", "-"}

IsNegative(t) == Len(t) > 0 /\ CharAt(t, 1) = "-"

Unsigned(t) == IF HasSign(t) THEN SubSeq(t, 2, Len(t)) ELSE t

\* the part of s before position pos (all of s when pos = 0) and the part
\* after it (empty when pos = 0)
Before(s, pos) == IF pos = 0 THEN s ELSE SubSeq(s, 1, pos - 1)

After(s, pos) == IF pos = 0 THEN "" ELSE SubSeq(s, pos + 1, Len(s))

\* more than four exponent digits saturate (the result is an overflow or an
\* underflow whatever the mantissa)
ExponentMagnitude(digits) == IF Len(digits) > 4 THEN 10000 ELSE ToNat(digits)

\* the exponent of a literal
ExponentValue(e) ==
    (IF IsNegative(e) THEN -1 ELSE 1)
    * ExponentMagnitude(StripLeadingZeros(RemoveChar(Unsigned(e), "_")))

ValidExponent(e) == ValidDigitPart(Unsigned(e))

\* the value of [ipart][.fpart][e epart]; [ok |-> FALSE] stands for ValueError
ParseDecimal(neg, ipart, fpart, hasExp, epart) ==
    IF ~(/\ ipart = "" \/ ValidDigitPart(ipart)
         /\ fpart = "" \/ ValidDigitPart(fpart)
         /\ ~(ipart = "" /\ fpart = "")
         /\ ~hasExp \/ ValidExponent(epart))
    THEN [ok |-> FALSE, value |-> NaN]
    ELSE [ok |-> TRUE,
          value |-> Normalize(neg,
                              ToNat(StripLeadingZeros(RemoveChar(ipart, "_")
                                                      \o RemoveChar(fpart, "_"))),
                              (IF hasExp THEN ExponentValue(epart) ELSE 0)
                              - Len(RemoveChar(fpart, "_")))]

\* the mantissa split at its point, dPos (0 when there is none)
ParseMantissa(neg, mpart, dPos, hasExp, epart) ==
    ParseDecimal(neg, Before(mpart, dPos), After(mpart, dPos), hasExp, epart)

\* the lowercased literal without its sign, split at its first "e", ePos
ParseBody(neg, body, ePos) ==
    IF body \in {"inf", "infinity"} THEN [ok |-> TRUE, value |-> Infinity(neg)]
    ELSE IF body = "nan" THEN [ok |-> TRUE, value |-> NaN]
    ELSE ParseMantissa(neg, Before(body, ePos), FirstIndexOf(Before(body, ePos), "."),
                       ePos # 0, After(body, ePos))

ParseUnsigned(neg, body) == ParseBody(neg, body, FirstIndexOf(body, "e"))

ParseStripped(t) == ParseUnsigned(IsNegative(t), Lower(Unsigned(t)))

\* float(s): [ok |-> FALSE] stands for ValueError
ParseFloat(s) == ParseStripped(Strip(s))

\* amount <= 0 on floats: every comparison with NaN is false
LessOrEqualZero(v) ==
    \/ v.cls = "fin" /\ (v.mant = 0 \/ v.neg)
    \/ v.cls = "inf" /\ v.neg

\* amount > 0 on floats
GreaterThanZero(v) ==
    \/ v.cls = "fin" /\ v.mant > 0 /\ ~v.neg
    \/ v.cls = "inf" /\ ~v.neg

RECURSIVE NatToStr(_)
NatToStr(n) ==
    IF n < 10 THEN CharAt(DIGITS, n + 1)
    ELSE NatToStr(n \div 10) \o CharAt(DIGITS, (n % 10) + 1)

\* f"{v:.2f}" for NaN, the infinities and the finite values that are a whole
\* number of hundredths
Format2f(v) ==
    IF v.cls = "nan" THEN "nan"
    ELSE IF v.cls = "inf" THEN (IF v.neg THEN "-inf" ELSE "inf")
    ELSE LET hundredths == v.mant * Pow10(v.exp + 2)
             cents == hundredths % 100
         IN  (IF v.neg THEN "-" ELSE "")
             \o NatToStr(hundredths \div 100) \o "."
             \o CharAt(DIGITS, (cents \div 10) + 1) \o CharAt(DIGITS, (cents % 10) + 1)

(***************************************************************************)
(* state.py: ConversationState                                             *)
(***************************************************************************)
EmptySlots == [k \in {} |-> ""]

\* state.slots[key] = value
SetSlot(slots, key, value) ==
    [k \in (DOMAIN slots) \cup {key} |-> IF k = key THEN value ELSE slots[k]]

\* ConversationState()
NewConversationState ==
    [intent_name |-> NULL, handler_key |-> NULL, step |-> NULL, slots |-> EmptySlots]

\* reset that forgets to clear the slots
Reset_KeepSlots(st) ==
    [st EXCEPT !.intent_name = NULL, !.handler_key = NULL, !.step = NULL]

\* ConversationState.reset
Reset(st) ==
    [st EXCEPT !.intent_name = NULL, !.handler_key = NULL, !.step = NULL,
               !.slots = EmptySlots]

\* ConversationState.active
Active(st) == st.intent_name # NULL /\ st.handler_key # NULL

(***************************************************************************)
(* services.py: the in-memory services.  Each returns the new identifier   *)
(* and the record list after the append.                                   *)
(***************************************************************************)
\* f"{n:04d}"
Format04d(n) ==
    LET digits == NatToStr(n)
    IN  IF Len(digits) >= 4 THEN digits
        ELSE SubSeq("0000", 1, 4 - Len(digits)) \o digits

\* the sequence number is taken before the record is counted
open_account_CountFromZero(opened, full_name, account_type, initial_deposit) ==
    LET account_id == "ACC" \o Format04d(Len(opened))
    IN  [id |-> account_id,
         records |-> Append(opened, [id |-> account_id,
                                     full_name |-> full_name,
                                     account_type |-> account_type,
                                     initial_deposit |-> Format2f(initial_deposit)])]

open_account(opened, full_name, account_type, initial_deposit) ==
    LET account_id == "ACC" \o Format04d(Len(opened) + 1)
    IN  [id |-> account_id,
         records |-> Append(opened, [id |-> account_id,
                                     full_name |-> full_name,
                                     account_type |-> account_type,
                                     initial_deposit |-> Format2f(initial_deposit)])]

transfer(done, from_account, to_account, amount) ==
    LET transfer_id == "TRX" \o Format04d(Len(done) + 1)
    IN  [id |-> transfer_id,
         records |-> Append(done, [id |-> transfer_id,
                                   from_account |-> from_account,
                                   to_account |-> to_account,
                                   amount |-> Format2f(amount)])]

send_message(sent, topic, message) ==
    LET ticket_id == "MSG" \o Format04d(Len(sent) + 1)
    IN  [id |-> ticket_id,
         records |-> Append(sent, [id |-> ticket_id,
                                   topic |-> topic,
                                   message |-> message])]

(***************************************************************************)
(* handlers.py.  A handler method is an operator from the utterance, the   *)
(* conversation state and the record list of the handler's service to an   *)
(* Outcome: the state and the record list it leaves and the HandlerResult  *)
(* it returns.                                                             *)
(***************************************************************************)
HandlerResult(reply, completed, error) ==
    [reply |-> reply, completed |-> completed, error |-> error]

Outcome(st, records, res) == [state |-> st, records |-> records, result |-> res]

\* ---- AccountOpeningHandler ----
AccountOpening_first_step == "collect_full_name"

AccountOpening_prompt_for_current_step(st, account_types) ==
    IF st.step = "collect_full_name" THEN
        HandlerResult("Sure, let's open a new account. What's your full name?", FALSE, FALSE)
    ELSE IF st.step = "collect_account_type" THEN
        HandlerResult("Thanks. What type of account would you like to open? Options: "
                      \o JoinTitled(account_types) \o ".", FALSE, FALSE)
    ELSE IF st.step = "collect_initial_deposit" THEN
        HandlerResult("Got it. How much would you like to deposit to get started?", FALSE, FALSE)
    ELSE IF st.step = "confirm_submission" THEN
        HandlerResult("Open a " \o Title(st.slots["account_type"]) \o " account for "
                      \o st.slots["full_name"] \o " with an initial deposit of $"
                      \o Format2f(st.slots["initial_deposit"]) \o "."
                      \o " Does everything look correct? (yes/no)", FALSE, FALSE)
    ELSE HandlerResult("I'm not sure what to ask next. Let's start over.", TRUE, TRUE)

\* BaseHandler.start: the assignments to the state passed in
Started_state(st, intent_name, handler_key, first_step) ==
    [st EXCEPT !.intent_name = intent_name, !.handler_key = handler_key,
               !.step = first_step, !.slots = EmptySlots]

\* start that leaves out state.slots.clear()
AccountOpening_start_KeepSlots(st, account_types) ==
    LET started == [st EXCEPT !.intent_name = "account_opening",
                              !.handler_key = "account_opening",
                              !.step = AccountOpening_first_step]
    IN  [state |-> started,
         result |-> AccountOpening_prompt_for_current_step(started, account_types)]

AccountOpening_start(st, account_types) ==
    LET started == Started_state(st, "account_opening", "account_opening",
                                 AccountOpening_first_step)
    IN  [state |-> started,
         result |-> AccountOpening_prompt_for_current_step(started, account_types)]

\* the name is stored and the flow moves to a step the handler does not know
AccountOpening_handle_full_name_UnknownNextStep(utterance, st, opened, account_types) ==
    LET full_name == Strip(utterance)
    IN  IF full_name = "" THEN
            Outcome(st, opened,
                    HandlerResult("I didn't catch your name. Could you share your full name?",
                                  FALSE, TRUE))
        ELSE LET next == [st EXCEPT !.slots = SetSlot(st.slots, "full_name", full_name),
                                    !.step = "collect_type"]
             IN  Outcome(next, opened, AccountOpening_prompt_for_current_step(next, account_types))

AccountOpening_handle_full_name(utterance, st, opened, account_types) ==
    LET full_name == Strip(utterance)
    IN  IF full_name = "" THEN
            Outcome(st, opened,
                    HandlerResult("I didn't catch your name. Could you share your full name?",
                                  FALSE, TRUE))
        ELSE LET next == [st EXCEPT !.slots = SetSlot(st.slots, "full_name", full_name),
                                    !.step = "collect_account_type"]
             IN  Outcome(next, opened, AccountOpening_prompt_for_current_step(next, account_types))

\* the validator writes the slot before it validates
AccountOpening_handle_account_type_StoreFirst(utterance, st, opened, account_types) ==
    LET account_type == Lower(Strip(utterance))
        stored == [st EXCEPT !.slots = SetSlot(st.slots, "account_type", account_type)]
    IN  IF ~(\E i \in 1..Len(account_types) : account_types[i] = account_type) THEN
            Outcome(stored, opened,
                    HandlerResult("I didn't recognize that account type. Please choose one of the following: "
                                  \o JoinTitled(account_types) \o ".", FALSE, TRUE))
        ELSE LET next == [stored EXCEPT !.step = "collect_initial_deposit"]
             IN  Outcome(next, opened, AccountOpening_prompt_for_current_step(next, account_types))

AccountOpening_handle_account_type(utterance, st, opened, account_types) ==
    LET account_type == Lower(Strip(utterance))
    IN  IF ~(\E i \in 1..Len(account_types) : account_types[i] = account_type) THEN
            Outcome(st, opened,
                    HandlerResult("I didn't recognize that account type. Please choose one of the following: "
                                  \o JoinTitled(account_types) \o ".", FALSE, TRUE))
        ELSE LET next == [st EXCEPT !.slots = SetSlot(st.slots, "account_type", account_type),
                                    !.step = "collect_initial_deposit"]
             IN  Outcome(next, opened, AccountOpening_prompt_for_current_step(next, account_types))

\* _handle_initial_deposit from the outcome of float(cleaned) on
AccountOpening_check_initial_deposit(parsed, st, opened, account_types) ==
    IF ~parsed.ok THEN
        Outcome(st, opened,
                HandlerResult("Please provide the deposit amount as a number.", FALSE, TRUE))
    ELSE IF LessOrEqualZero(parsed.value) THEN
        Outcome(st, opened,
                HandlerResult("The deposit amount must be greater than zero. How much would you like to deposit?",
                              FALSE, TRUE))
    ELSE LET next == [st EXCEPT !.slots = SetSlot(st.slots, "initial_deposit", parsed.value),
                                !.step = "confirm_submission"]
         IN  Outcome(next, opened, AccountOpening_prompt_for_current_step(next, account_types))

AccountOpening_handle_initial_deposit(utterance, st, opened, account_types) ==
    AccountOpening_check_initial_deposit(ParseFloat(Strip(RemoveChar(utterance, ","))),
                                         st, opened, account_types)

\* the confirmation takes only "yes" and "y" as affirmative
AccountOpening_handle_confirmation_NoConfirmWord(utterance, st, opened, account_types) ==
    LET normalized == Lower(Strip(utterance))
    IN  IF normalized \in {"yes", "y"} THEN
            LET call == open_account(opened, st.slots["full_name"], st.slots["account_type"],
                                     st.slots["initial_deposit"])
            IN  Outcome(st, call.records,
                        HandlerResult("All set! Your new account (" \o call.id
                                      \o ") is ready. Is there anything else I can help you with?",
                                      TRUE, FALSE))
        ELSE IF normalized \in {"no", "n", "cancel"} THEN
            Outcome(st, opened,
                    HandlerResult("No problem, I won't submit that application. Let me know if you need anything else.",
                                  TRUE, FALSE))
        ELSE Outcome(st, opened,
                     HandlerResult("Please reply with yes or no so I know whether to submit the application.",
                                   FALSE, TRUE))

AccountOpening_handle_confirmation(utterance, st, opened, account_types) ==
    LET normalized == Lower(Strip(utterance))
    IN  IF normalized \in {"yes", "y", "confirm"} THEN
            LET call == open_account(opened, st.slots["full_name"], st.slots["account_type"],
                                     st.slots["initial_deposit"])
            IN  Outcome(st, call.records,
                        HandlerResult("All set! Your new account (" \o call.id
                                      \o ") is ready. Is there anything else I can help you with?",
                                      TRUE, FALSE))
        ELSE IF normalized \in {"no", "n", "cancel"} THEN
            Outcome(st, opened,
                    HandlerResult("No problem, I won't submit that application. Let me know if you need anything else.",
                                  TRUE, FALSE))
        ELSE Outcome(st, opened,
                     HandlerResult("Please reply with yes or no so I know whether to submit the application.",
                                   FALSE, TRUE))

AccountOpening_handle(utterance, st, opened, account_types) ==
    IF st.step = "collect_full_name" THEN
        AccountOpening_handle_full_name(utterance, st, opened, account_types)
    ELSE IF st.step = "collect_account_type" THEN
        AccountOpening_handle_account_type(utterance, st, opened, account_types)
    ELSE IF st.step = "collect_initial_deposit" THEN
        AccountOpening_handle_initial_deposit(utterance, st, opened, account_types)
    ELSE IF st.step = "confirm_submission" THEN
        AccountOpening_handle_confirmation(utterance, st, opened, account_types)
    ELSE Outcome(st, opened,
                 HandlerResult("Let's restart that account application.", TRUE, TRUE))

\* ---- MoneyTransferHandler ----
MoneyTransfer_first_step == "collect_from_account"

MoneyTransfer_prompt_for_current_step(st) ==
    IF st.step = "collect_from_account" THEN
        HandlerResult("Sure thing. Which account should the money come from?", FALSE, FALSE)
    ELSE IF st.step = "collect_to_account" THEN
        HandlerResult("Thanks. What account are we sending the funds to?", FALSE, FALSE)
    ELSE IF st.step = "collect_amount" THEN
        HandlerResult("How much money should I transfer?", FALSE, FALSE)
    ELSE IF st.step = "confirm_transfer" THEN
        HandlerResult("Transfer $" \o Format2f(st.slots["amount"]) \o " from "
                      \o st.slots["from_account"] \o " to " \o st.slots["to_account"] \o "."
                      \o " Does that look right? (yes/no)", FALSE, FALSE)
    ELSE HandlerResult("I'm not sure how to proceed with that transfer. Let's start again.",
                       TRUE, TRUE)

MoneyTransfer_start(st) ==
    LET started == Started_state(st, "money_transfer", "money_transfer",
                                 MoneyTransfer_first_step)
    IN  [state |-> started, result |-> MoneyTransfer_prompt_for_current_step(started)]

MoneyTransfer_handle_from_account(utterance, st, done) ==
    LET account == Strip(utterance)
    IN  IF account = "" THEN
            Outcome(st, done,
                    HandlerResult("I need the account number to continue. Which account should we use?",
                                  FALSE, TRUE))
        ELSE LET next == [st EXCEPT !.slots = SetSlot(st.slots, "from_account", account),
                                    !.step = "collect_to_account"]
             IN  Outcome(next, done, MoneyTransfer_prompt_for_current_step(next))

\* the validator starts the slots afresh
MoneyTransfer_handle_to_account_DropsSlots(utterance, st, done) ==
    LET account == Strip(utterance)
    IN  IF account = "" THEN
            Outcome(st, done,
                    HandlerResult("Please tell me where to send the money.", FALSE, TRUE))
        ELSE IF "from_account" \in DOMAIN st.slots /\ account = st.slots["from_account"] THEN
            Outcome(st, done,
                    HandlerResult("The destination must be different from the source account. Where should the funds go?",
                                  FALSE, TRUE))
        ELSE LET next == [st EXCEPT !.slots = SetSlot(EmptySlots, "to_account", account),
                                    !.step = "collect_amount"]
             IN  Outcome(next, done, MoneyTransfer_prompt_for_current_step(next))

\* the duplicate check compares the untrimmed utterance
MoneyTransfer_handle_to_account_RawCompare(utterance, st, done) ==
    LET account == Strip(utterance)
    IN  IF account = "" THEN
            Outcome(st, done,
                    HandlerResult("Please tell me where to send the money.", FALSE, TRUE))
        ELSE IF "from_account" \in DOMAIN st.slots /\ utterance = st.slots["from_account"] THEN
            Outcome(st, done,
                    HandlerResult("The destination must be different from the source account. Where should the funds go?",
                                  FALSE, TRUE))
        ELSE LET next == [st EXCEPT !.slots = SetSlot(st.slots, "to_account", account),
                                    !.step = "collect_amount"]
             IN  Outcome(next, done, MoneyTransfer_prompt_for_current_step(next))

MoneyTransfer_handle_to_account(utterance, st, done) ==
    LET account == Strip(utterance)
    IN  IF account = "" THEN
            Outcome(st, done,
                    HandlerResult("Please tell me where to send the money.", FALSE, TRUE))
        ELSE IF "from_account" \in DOMAIN st.slots /\ account = st.slots["from_account"] THEN
            Outcome(st, done,
                    HandlerResult("The destination must be different from the source account. Where should the funds go?",
                                  FALSE, TRUE))
        ELSE LET next == [st EXCEPT !.slots = SetSlot(st.slots, "to_account", account),
                                    !.step = "collect_amount"]
             IN  Outcome(next, done, MoneyTransfer_prompt_for_current_step(next))

\* _handle_amount from the outcome of float(cleaned); unreadable is the error
\* flag of the reply to a text float() rejects
MoneyTransfer_check_amount(parsed, st, done, unreadable) ==
    IF ~parsed.ok THEN
        Outcome(st, done,
                HandlerResult("I wasn't able to read that dollar amount. How much should I transfer?",
                              FALSE, unreadable))
    ELSE IF LessOrEqualZero(parsed.value) THEN
        Outcome(st, done,
                HandlerResult("The transfer amount must be greater than zero. How much should I move?",
                              FALSE, TRUE))
    ELSE LET next == [st EXCEPT !.slots = SetSlot(st.slots, "amount", parsed.value),
                                !.step = "confirm_transfer"]
         IN  Outcome(next, done, MoneyTransfer_prompt_for_current_step(next))

\* the reply to an unreadable amount is not flagged as an error
MoneyTransfer_handle_amount_NoErrorFlag(utterance, st, done) ==
    MoneyTransfer_check_amount(ParseFloat(Strip(RemoveChar(utterance, ","))), st, done, FALSE)

MoneyTransfer_handle_amount(utterance, st, done) ==
    MoneyTransfer_check_amount(ParseFloat(Strip(RemoveChar(utterance, ","))), st, done, TRUE)

\* the confirmation commits on every reply that is not negative
MoneyTransfer_handle_confirmation_CommitUnlessNo(utterance, st, done) ==
    LET normalized == Lower(Strip(utterance))
    IN  IF normalized \in {"no", "n", "cancel"} THEN
            Outcome(st, done,
                    HandlerResult("Okay, I canceled that transfer. Let me know if you change your mind.",
                                  TRUE, FALSE))
        ELSE
            LET call == transfer(done, st.slots["from_account"], st.slots["to_account"],
                                 st.slots["amount"])
            IN  Outcome(st, call.records,
                        HandlerResult("Done! Transfer " \o call.id
                                      \o " is complete. Anything else I can help with?",
                                      TRUE, FALSE))

MoneyTransfer_handle_confirmation(utterance, st, done) ==
    LET normalized == Lower(Strip(utterance))
    IN  IF normalized \in {"yes", "y", "confirm"} THEN
            LET call == transfer(done, st.slots["from_account"], st.slots["to_account"],
                                 st.slots["amount"])
            IN  Outcome(st, call.records,
                        HandlerResult("Done! Transfer " \o call.id
                                      \o " is complete. Anything else I can help with?",
                                      TRUE, FALSE))
        ELSE IF normalized \in {"no", "n", "cancel"} THEN
            Outcome(st, done,
                    HandlerResult("Okay, I canceled that transfer. Let me know if you change your mind.",
                                  TRUE, FALSE))
        ELSE Outcome(st, done,
                     HandlerResult("Please respond with yes or no so I can complete the transfer.",
                                   FALSE, TRUE))

\* an unknown step is answered with an error that keeps the flow open
MoneyTransfer_handle_UnknownStepRetries(utterance, st, done) ==
    IF st.step = "collect_from_account" THEN MoneyTransfer_handle_from_account(utterance, st, done)
    ELSE IF st.step = "collect_to_account" THEN MoneyTransfer_handle_to_account(utterance, st, done)
    ELSE IF st.step = "collect_amount" THEN MoneyTransfer_handle_amount(utterance, st, done)
    ELSE IF st.step = "confirm_transfer" THEN MoneyTransfer_handle_confirmation(utterance, st, done)
    ELSE Outcome(st, done, HandlerResult("Let's cancel that transfer for now.", FALSE, TRUE))

MoneyTransfer_handle(utterance, st, done) ==
    IF st.step = "collect_from_account" THEN MoneyTransfer_handle_from_account(utterance, st, done)
    ELSE IF st.step = "collect_to_account" THEN MoneyTransfer_handle_to_account(utterance, st, done)
    ELSE IF st.step = "collect_amount" THEN MoneyTransfer_handle_amount(utterance, st, done)
    ELSE IF st.step = "confirm_transfer" THEN MoneyTransfer_handle_confirmation(utterance, st, done)
    ELSE Outcome(st, done, HandlerResult("Let's cancel that transfer for now.", TRUE, TRUE))

\* ---- AdvisorMessagingHandler ----
AdvisorMessaging_first_step == "collect_topic"

AdvisorMessaging_prompt_for_current_step(st) ==
    IF st.step = "collect_topic" THEN
        HandlerResult("Happy to help. What would you like to discuss with your advisor?",
                      FALSE, FALSE)
    ELSE IF st.step = "collect_message" THEN
        HandlerResult("Great. What details should I include in the secure message?", FALSE, FALSE)
    ELSE IF st.step = "confirm_message" THEN
        HandlerResult("I'll send your advisor a message about '" \o st.slots["topic"]
                      \o "' saying: '" \o st.slots["message"]
                      \o "'. Shall I send it now? (yes/no)", FALSE, FALSE)
    ELSE HandlerResult("I ran into an issue preparing that advisor message. Let's start over.",
                       TRUE, TRUE)

AdvisorMessaging_start(st) ==
    LET started == Started_state(st, "secure_advisor_message", "advisor_message",
                                 AdvisorMessaging_first_step)
    IN  [state |-> started, result |-> AdvisorMessaging_prompt_for_current_step(started)]

\* an accepted topic ends the conversation
AdvisorMessaging_handle_topic_Completes(utterance, st, sent) ==
    LET topic == Strip(utterance)
    IN  IF topic = "" THEN
            Outcome(st, sent,
                    HandlerResult("Please share a short topic so your advisor knows what to expect.",
                                  FALSE, TRUE))
        ELSE LET next == [st EXCEPT !.slots = SetSlot(st.slots, "topic", topic),
                                    !.step = "collect_message"]
             IN  Outcome(next, sent,
                         [AdvisorMessaging_prompt_for_current_step(next)
                             EXCEPT !.completed = TRUE])

AdvisorMessaging_handle_topic(utterance, st, sent) ==
    LET topic == Strip(utterance)
    IN  IF topic = "" THEN
            Outcome(st, sent,
                    HandlerResult("Please share a short topic so your advisor knows what to expect.",
                                  FALSE, TRUE))
        ELSE LET next == [st EXCEPT !.slots = SetSlot(st.slots, "topic", topic),
                                    !.step = "collect_message"]
             IN  Outcome(next, sent, AdvisorMessaging_prompt_for_current_step(next))

\* the validator goes back to the topic
AdvisorMessaging_handle_message_BackToTopic(utterance, st, sent) ==
    LET message == Strip(utterance)
    IN  IF message = "" THEN
            Outcome(st, sent,
                    HandlerResult("I'll need a bit more detail to send a helpful message. What should I include?",
                                  FALSE, TRUE))
        ELSE LET next == [st EXCEPT !.slots = SetSlot(st.slots, "message", message),
                                    !.step = "collect_topic"]
             IN  Outcome(next, sent, AdvisorMessaging_prompt_for_current_step(next))

AdvisorMessaging_handle_message(utterance, st, sent) ==
    LET message == Strip(utterance)
    IN  IF message = "" THEN
            Outcome(st, sent,
                    HandlerResult("I'll need a bit more detail to send a helpful message. What should I include?",
                                  FALSE, TRUE))
        ELSE LET next == [st EXCEPT !.slots = SetSlot(st.slots, "message", message),
                                    !.step = "confirm_message"]
             IN  Outcome(next, sent, AdvisorMessaging_prompt_for_current_step(next))

\* the decline reply is not marked completed
AdvisorMessaging_handle_confirmation_DeclineNotCompleted(utterance, st, sent) ==
    LET normalized == Lower(Strip(utterance))
    IN  IF normalized \in {"yes", "y", "send"} THEN
            LET call == send_message(sent, st.slots["topic"], st.slots["message"])
            IN  Outcome(st, call.records,
                        HandlerResult("All right, I've delivered that message. Your advisor will reply under ticket "
                                      \o call.id \o ".", TRUE, FALSE))
        ELSE IF normalized \in {"no", "n", "cancel"} THEN
            Outcome(st, sent,
                    HandlerResult("Okay, I won't send that. Let me know if you want to try again.",
                                  FALSE, FALSE))
        ELSE Outcome(st, sent,
                     HandlerResult("Please answer yes or no so I know whether to send the message.",
                                   FALSE, TRUE))

AdvisorMessaging_handle_confirmation(utterance, st, sent) ==
    LET normalized == Lower(Strip(utterance))
    IN  IF normalized \in {"yes", "y", "send"} THEN
            LET call == send_message(sent, st.slots["topic"], st.slots["message"])
            IN  Outcome(st, call.records,
                        HandlerResult("All right, I've delivered that message. Your advisor will reply under ticket "
                                      \o call.id \o ".", TRUE, FALSE))
        ELSE IF normalized \in {"no", "n", "cancel"} THEN
            Outcome(st, sent,
                    HandlerResult("Okay, I won't send that. Let me know if you want to try again.",
                                  TRUE, FALSE))
        ELSE Outcome(st, sent,
                     HandlerResult("Please answer yes or no so I know whether to send the message.",
                                   FALSE, TRUE))

AdvisorMessaging_handle(utterance, st, sent) ==
    IF st.step = "collect_topic" THEN AdvisorMessaging_handle_topic(utterance, st, sent)
    ELSE IF st.step = "collect_message" THEN AdvisorMessaging_handle_message(utterance, st, sent)
    ELSE IF st.step = "confirm_message" THEN AdvisorMessaging_handle_confirmation(utterance, st, sent)
    ELSE Outcome(st, sent,
                 HandlerResult("Let's try composing that message again later.", TRUE, TRUE))

(***************************************************************************)
(* configuration.py and router.py                                          *)
(***************************************************************************)
NoEntities == [k \in {} |-> <<>>]

\* the intent definitions of config/intents.json, as the dialogue tests and
\* the specification's scenarios use them
RawIntents ==
    << [name |-> "account_opening", handler |-> "account_opening",
        keywords |-> <<"open account", "new account">>,
        entities |-> [k \in {"account_type"} |-> <<"checking", "savings">>]],
       [name |-> "money_transfer", handler |-> "money_transfer",
        keywords |-> <<"transfer">>, entities |-> NoEntities],
       [name |-> "secure_advisor_message", handler |-> "advisor_message",
        keywords |-> <<"advisor">>, entities |-> NoEntities] >>

\* load_intents: keywords are lowercased, the rest is copied
load_intents(raw) ==
    [i \in 1..Len(raw) |->
        [name |-> raw[i].name, handler |-> raw[i].handler,
         keywords |-> [j \in 1..Len(raw[i].keywords) |-> Lower(raw[i].keywords[j])],
         entities |-> raw[i].entities]]

IntentMatches(intent, cleaned) ==
    \E j \in 1..Len(intent.keywords) : Contains(intent.keywords[j], cleaned)

\* match that returns the last intent with a keyword in the utterance
RouterMatch_LastWins(catalog, utterance) ==
    IF utterance = "" THEN 0
    ELSE IF \E i \in 1..Len(catalog) : IntentMatches(catalog[i], Lower(utterance))
         THEN CHOOSE i \in 1..Len(catalog) :
                 /\ IntentMatches(catalog[i], Lower(utterance))
                 /\ \A k \in (i + 1)..Len(catalog) :
                        ~IntentMatches(catalog[k], Lower(utterance))
         ELSE 0

\* IntentRouter.match: the position in the catalog of the first intent with a
\* keyword occurring in the lowercased utterance; 0 stands for None
RouterMatch(catalog, utterance) ==
    IF utterance = "" THEN 0
    ELSE LET cleaned == Lower(utterance)
         IN  IF \E i \in 1..Len(catalog) : IntentMatches(catalog[i], cleaned)
             THEN CHOOSE i \in 1..Len(catalog) :
                     /\ IntentMatches(catalog[i], cleaned)
                     /\ \A k \in 1..(i - 1) : ~IntentMatches(catalog[k], cleaned)
             ELSE 0

(***************************************************************************)
(* engine.py: ChatbotEngine                                                *)
(***************************************************************************)
\* a cancel set without the two-word and the one-word "never mind"
cancel_keywords_Short == {"cancel", "stop", "start over"}

cancel_keywords == {"cancel", "stop", "start over", "nevermind", "never mind"}

\* the keys of the dictionary _build_handlers returns
HandlerKeys == {"account_opening", "money_transfer", "advisor_message"}

RECURSIVE Dedupe(_)
\* tuple(dict.fromkeys(xs)): first occurrences, in order
Dedupe(xs) ==
    IF Len(xs) = 0 THEN <<>>
    ELSE LET front == Dedupe(SubSeq(xs, 1, Len(xs) - 1))
             last == xs[Len(xs)]
         IN  IF \E i \in 1..Len(front) : front[i] = last THEN front ELSE Append(front, last)

\* the account types _build_handlers passes to AccountOpeningHandler, as its
\* constructor normalizes them
AccountTypes(catalog) ==
    LET opening == {i \in 1..Len(catalog) : catalog[i].handler = "account_opening"}
        first == CHOOSE i \in opening : \A k \in opening : i <= k
        configured == IF opening = {} THEN <<>>
                      ELSE IF "account_type" \in DOMAIN catalog[first].entities
                           THEN catalog[first].entities["account_type"]
                           ELSE <<>>
        chosen == IF Len(configured) = 0 THEN <<"checking", "savings">> ELSE configured
    IN  Dedupe([i \in 1..Len(chosen) |-> Lower(chosen[i])])

Services(opened, done, sent) ==
    [opened_accounts |-> opened, transfers |-> done, messages |-> sent]

\* handler.start(self.state) for the handler registered under key
Start(key, st, account_types) ==
    IF key = "account_opening" THEN AccountOpening_start(st, account_types)
    ELSE IF key = "money_transfer" THEN MoneyTransfer_start(st)
    ELSE AdvisorMessaging_start(st)

\* the record list of the service the handler registered under key calls
ServiceOf(key) ==
    IF key = "account_opening" THEN "opened_accounts"
    ELSE IF key = "money_transfer" THEN "transfers"
    ELSE "messages"

\* the state, the result and the services an Outcome o of that handler leaves
Handled(key, svcs, o) ==
    [state |-> o.state, result |-> o.result,
     services |-> [svcs EXCEPT ![ServiceOf(key)] = o.records]]

\* handler.handle(utterance, self.state) for the handler registered under key
Handle(key, utterance, st, svcs, account_types) ==
    Handled(key, svcs,
            IF key = "account_opening"
            THEN AccountOpening_handle(utterance, st, svcs.opened_accounts, account_types)
            ELSE IF key = "money_transfer"
            THEN MoneyTransfer_handle(utterance, st, svcs.transfers)
            ELSE AdvisorMessaging_handle(utterance, st, svcs.messages))

\* no HandlerResult was produced in the turn
NoResult == HandlerResult(NULL, FALSE, FALSE)

\* what a turn leaves: the conversation state, the services, the reply
\* returned (NULL when an exception is raised instead), the HandlerResult the
\* turn produced, the exception raised (NULL when none) and the branch of
\* the engine that ended the turn
Turn(st, svcs, reply, res, raised, path) ==
    [state |-> st, services |-> svcs, reply |-> reply, result |-> res, raised |-> raised,
     path |-> path]

\* the turn after handler.start returned s
Started(s, svcs, path) == Turn(s.state, svcs, NULL, s.result, NULL, path)

\* a routing miss starts Account Opening
RouteIntent_DefaultFlow(intent, st, svcs, catalog) ==
    IF intent # 0 /\ catalog[intent].handler \notin HandlerKeys THEN
        Turn(st, svcs, NULL, NoResult, "HandlerNotFoundError", "start")
    ELSE Started(Start(IF intent = 0 THEN "account_opening" ELSE catalog[intent].handler,
                       st, AccountTypes(catalog)), svcs, "start")

\* _route_to_handler with no active flow, intent being the position the
\* router returned (0 for None)
RouteIntent(intent, st, svcs, catalog) ==
    IF intent = 0 THEN
        Turn(st, svcs, NULL,
             HandlerResult("I'm not sure how to help with that just yet, but I can open accounts, transfer funds, or message your advisor.",
                           FALSE, TRUE), NULL, "fallback")
    ELSE IF catalog[intent].handler \notin HandlerKeys THEN
        Turn(st, svcs, NULL, NoResult, "HandlerNotFoundError", "start")
    ELSE Started(Start(catalog[intent].handler, st, AccountTypes(catalog)), svcs, "start")

\* the turn after handler.handle returned h
Continued(h) == Turn(h.state, h.services, NULL, h.result, NULL, "handle")

\* a missing registration of the active handler leaves the state as it is
RouteToHandler_KeepsStateOnMissing(utterance, st, svcs, catalog) ==
    IF ~Active(st) THEN RouteIntent(RouterMatch(catalog, utterance), st, svcs, catalog)
    ELSE IF st.handler_key \notin HandlerKeys THEN
        Turn(st, svcs, NULL, NoResult, "HandlerNotFoundError", "handle")
    ELSE Continued(Handle(st.handler_key, utterance, st, svcs, AccountTypes(catalog)))

\* ChatbotEngine._route_to_handler
RouteToHandler(utterance, st, svcs, catalog) ==
    IF ~Active(st) THEN RouteIntent(RouterMatch(catalog, utterance), st, svcs, catalog)
    ELSE IF st.handler_key \notin HandlerKeys THEN
        Turn(Reset(st), svcs, NULL, NoResult, "HandlerNotFoundError", "handle")
    ELSE Continued(Handle(st.handler_key, utterance, st, svcs, AccountTypes(catalog)))

\* a completed result leaves the state as it is
ResetIfCompleted_Never(t) == [t EXCEPT !.reply = t.result.reply]

\* the reset when a result is completed, which _maybe_reroute and
\* handle_message share
ResetIfCompleted(t) ==
    [t EXCEPT !.state = IF t.result.completed THEN Reset(t.state) ELSE t.state,
              !.reply = t.result.reply]

\* the reroute check restarts the active flow too
RerouteIntent_RestartSame(intent, st, svcs, catalog) ==
    IF intent # 0 THEN
        IF catalog[intent].handler \notin HandlerKeys THEN
            Turn(st, svcs, NULL, NoResult, "HandlerNotFoundError", "reroute")
        ELSE ResetIfCompleted(Started(Start(catalog[intent].handler, Reset(st),
                                            AccountTypes(catalog)), svcs, "reroute"))
    ELSE Turn(st, svcs, NULL, NoResult, NULL, "none")

\* _maybe_reroute, intent being the position the router returned (0 for None)
RerouteIntent(intent, st, svcs, catalog) ==
    IF intent # 0 /\ catalog[intent].handler # st.handler_key THEN
        IF catalog[intent].handler \notin HandlerKeys THEN
            Turn(st, svcs, NULL, NoResult, "HandlerNotFoundError", "reroute")
        ELSE ResetIfCompleted(Started(Start(catalog[intent].handler, Reset(st),
                                            AccountTypes(catalog)), svcs, "reroute"))
    ELSE Turn(st, svcs, NULL, NoResult, NULL, "none")

\* the reroute check never fires
MaybeReroute_Never(utterance, st, svcs, catalog) ==
    Turn(st, svcs, NULL, NoResult, NULL, "none")

\* ChatbotEngine._maybe_reroute; reply = NULL with raised = NULL stands for
\* the return value None
MaybeReroute(utterance, st, svcs, catalog) ==
    RerouteIntent(RouterMatch(catalog, utterance), st, svcs, catalog)

\* handle_message once _route_to_handler returned (or raised)
AfterRoute(routed) == IF routed.raised # NULL THEN routed ELSE ResetIfCompleted(routed)

\* handle_message once _maybe_reroute returned (or raised)
AfterReroute(rerouted, utterance, st, svcs, catalog) ==
    IF rerouted.reply # NULL \/ rerouted.raised # NULL THEN rerouted
    ELSE AfterRoute(RouteToHandler(utterance, st, svcs, catalog))

\* a cancel phrase clears intent_name only
Dispatch_CancelClearsIntentOnly(normalized, utterance, st, svcs, catalog) ==
    IF Lower(normalized) \in cancel_keywords THEN
        Turn([st EXCEPT !.intent_name = NULL], svcs,
             "Okay, I've canceled the current request. How else can I help?", NoResult,
             NULL, "cancel")
    ELSE AfterReroute(IF Active(st) THEN MaybeReroute(utterance, st, svcs, catalog)
                      ELSE Turn(st, svcs, NULL, NoResult, NULL, "none"),
                      utterance, st, svcs, catalog)

\* handle_message for a normalized utterance that is not empty
Dispatch(normalized, utterance, st, svcs, catalog) ==
    IF Lower(normalized) \in cancel_keywords THEN
        Turn(Reset(st), svcs,
             "Okay, I've canceled the current request. How else can I help?", NoResult,
             NULL, "cancel")
    ELSE AfterReroute(IF Active(st) THEN MaybeReroute(utterance, st, svcs, catalog)
                      ELSE Turn(st, svcs, NULL, NoResult, NULL, "none"),
                      utterance, st, svcs, catalog)

\* handle_message without the test for an empty utterance
handle_message_NoEmptyCheck(utterance, st, svcs, catalog) ==
    Dispatch(Strip(utterance), utterance, st, svcs, catalog)

\* ChatbotEngine.handle_message
handle_message(utterance, st, svcs, catalog) ==
    IF Strip(utterance) = "" THEN
        Turn(st, svcs, "Could you share more detail so I can help?", NoResult, NULL, "empty")
    ELSE Dispatch(Strip(utterance), utterance, st, svcs, catalog)

(***************************************************************************)
(* The engine as a state machine: one turn per step.                       *)
(***************************************************************************)
VARIABLES
    state,            \* ChatbotEngine.state, the ConversationState
    opened_accounts,  \* InMemoryAccountService.opened_accounts
    transfers,        \* InMemoryTransferService.transfers
    messages,         \* InMemoryAdvisorMessagingService.messages
    intents,          \* ChatbotEngine._intents, the loaded catalog
    reply,            \* the return value of the last handle_message
    result,           \* the HandlerResult produced in the last turn
    raised,           \* the exception the last handle_message raised
    path,             \* the branch of the engine that ended the last turn
    asked,            \* the utterance of the last direct call of IntentRouter.match
    matched,          \* what that call returned: a position in the catalog, 0 for None
    activation        \* history: what the user entered and the handler accepted, and
                      \* the service calls made, since the last start of a flow

vars ==
    <<state, opened_accounts, transfers, messages, intents, reply, result, raised, path,
      asked, matched, activation>>

\* the slot each collecting step fills
SlotOf ==
    [step \in {"collect_full_name", "collect_account_type", "collect_initial_deposit",
                "collect_from_account", "collect_to_account", "collect_amount",
                "collect_topic", "collect_message"} |->
        IF step = "collect_full_name" THEN "full_name"
        ELSE IF step = "collect_account_type" THEN "account_type"
        ELSE IF step = "collect_initial_deposit" THEN "initial_deposit"
        ELSE IF step = "collect_from_account" THEN "from_account"
        ELSE IF step = "collect_to_account" THEN "to_account"
        ELSE IF step = "collect_amount" THEN "amount"
        ELSE IF step = "collect_topic" THEN "topic"
        ELSE "message"]

\* no flow was started yet
NoActivation == [entered |-> EmptySlots, commits |-> 0]

\* the history after the turn t that handle_message(utterance) takes in
\* state st: a start begins a new activation; a turn that leaves no flow
\* active forgets what was entered; an utterance the handler of a collecting
\* step accepted is recorded, as the user typed it, under that step's slot;
\* every record a service appended is counted
ActivationAfter(utterance, st, svcs, act, t) ==
    [entered |->
        IF ~Active(t.state) \/ t.path \in {"start", "reroute"} THEN EmptySlots
        ELSE IF /\ t.path = "handle"
                /\ ~t.result.error
                /\ st.step \in DOMAIN SlotOf
             THEN SetSlot(act.entered, SlotOf[st.step], utterance)
        ELSE act.entered,
     commits |->
        (IF t.path \in {"start", "reroute"} /\ t.raised = NULL THEN 0 ELSE act.commits)
        + Len(t.services.opened_accounts) + Len(t.services.transfers)
        + Len(t.services.messages)
        - (Len(svcs.opened_accounts) + Len(svcs.transfers) + Len(svcs.messages))]

\* the utterances the properties range over
Utterances ==
    { "", " ",
      "cancel", " STOP ", "start over", "nevermind", "Never Mind",
      "yes", " Y ", "Confirm", "send", "no", " N ",
      "open account", "Transfer money", "contact advisor",
      " Checking ", "1,500", "0", "-50", "nan",
      " CHK-001 ", "chk-001" }

\* the steps whose validator accepts every non-empty text
FreeTextSteps ==
    {"collect_full_name", "collect_from_account", "collect_to_account",
     "collect_topic", "collect_message"}

\* what the user answers a free-text prompt with: a text, a phrase that
\* names a flow, a cancel phrase, or nothing
FreeTextAnswers ==
    { " CHK-001 ", "chk-001",
      "open account", "Transfer money", "contact advisor",
      "cancel", " STOP ", "start over", "nevermind", "Never Mind",
      "", " " }

\* the utterances the user sends in state st.  The text collected by a
\* free-text step is kept to few values; the properties are stated for
\* every utterance of Utterances in every state reached.
Inputs(st) ==
    IF Active(st) /\ st.step \in FreeTextSteps THEN FreeTextAnswers ELSE Utterances

Commits == Len(opened_accounts) + Len(transfers) + Len(messages)

Init ==
    /\ state = NewConversationState
    /\ opened_accounts = <<>>
    /\ transfers = <<>>
    /\ messages = <<>>
    /\ intents = load_intents(RawIntents)
    /\ reply = NULL
    /\ result = NoResult
    /\ raised = NULL
    /\ path = "none"
    /\ asked = NULL
    /\ matched = 0
    /\ activation = NoActivation

\* one call of engine.handle_message(utterance)
HandleMessage(utterance) ==
    /\ Commits < MaxCommits
    /\ \E t \in {handle_message(utterance, state,
                                Services(opened_accounts, transfers, messages), intents)} :
           /\ state' = t.state
           /\ opened_accounts' = t.services.opened_accounts
           /\ transfers' = t.services.transfers
           /\ messages' = t.services.messages
           /\ reply' = t.reply
           /\ result' = t.result
           /\ raised' = t.raised
           /\ path' = t.path
           /\ activation' = ActivationAfter(utterance, state,
                                            Services(opened_accounts, transfers, messages),
                                            activation, t)
    /\ UNCHANGED <<intents, asked, matched>>

Next == \E utterance \in Inputs(state) : HandleMessage(utterance)

Spec == Init /\ [][Next]_vars

(***************************************************************************)
(* Vocabulary of the properties.                                           *)
(***************************************************************************)
CurrentServices == Services(opened_accounts, transfers, messages)

\* what handle_message(u) does in the current state
TurnOf(u) == handle_message(u, state, CurrentServices, intents)

\* what the active handler's handle(u, state) does in the current state
HandleOf(u) == Handle(state.handler_key, u, state, CurrentServices, AccountTypes(intents))

\* the steps of the three flows
FlowSteps ==
    {"collect_full_name", "collect_account_type", "collect_initial_deposit",
     "confirm_submission", "collect_from_account", "collect_to_account", "collect_amount",
     "confirm_transfer", "collect_topic", "collect_message", "confirm_message"}

ConfirmStep ==
    [k \in HandlerKeys |->
        IF k = "account_opening" THEN "confirm_submission"
        ELSE IF k = "money_transfer" THEN "confirm_transfer"
        ELSE "confirm_message"]

AtConfirmStep == Active(state) /\ state.handler_key \in HandlerKeys
                 /\ state.step = ConfirmStep[state.handler_key]

\* the record list of the service of the flow with handler key k
RecordsOf(svcs, k) ==
    IF k = "account_opening" THEN svcs.opened_accounts
    ELSE IF k = "money_transfer" THEN svcs.transfers
    ELSE svcs.messages

\* "yes", "y", "confirm", or the synonym "send"
AffirmativeReplies == {"yes", "y", "confirm", "send"}
NegativeReplies == {"no", "n", "cancel"}

(***************************************************************************)
(* C1: a service operation is invoked only in a turn that begins with the  *)
(* conversation active at the confirm step of that service's flow and      *)
(* whose utterance is an affirmative reply; from a collect step, from an   *)
(* inactive state, by a cancel phrase or by a reroute no record list       *)
(* changes.                                                                *)
(***************************************************************************)
C1_CommitOnlyOnConfirmedAffirmative ==
    \A u \in Utterances : \A t \in {TurnOf(u)} :
        \A k \in HandlerKeys :
            RecordsOf(t.services, k) # RecordsOf(CurrentServices, k)
            => /\ AtConfirmStep
               /\ state.handler_key = k
               /\ Lower(Strip(u)) \in AffirmativeReplies
               /\ Lower(Strip(u)) \notin cancel_keywords
               /\ RouterMatch(intents, u) = 0

\* a transfer was committed in the last turn
C1_Witness ==
    /\ path = "handle"
    /\ Len(transfers) = 1
    /\ ~Active(state)
    /\ reply = "Done! Transfer TRX0001 is complete. Anything else I can help with?"

\* the handler's service was called exactly once: one record was appended
\* to its list and no other list changed
CalledOnce(after, k) ==
    /\ Len(RecordsOf(after, k)) = Len(RecordsOf(CurrentServices, k)) + 1
    /\ SubSeq(RecordsOf(after, k), 1, Len(RecordsOf(CurrentServices, k)))
           = RecordsOf(CurrentServices, k)
    /\ \A other \in HandlerKeys \ {k} :
           RecordsOf(after, other) = RecordsOf(CurrentServices, other)

\* the identifier the service returned is in the reply
MentionsNewId(after, k, text) ==
    Contains(RecordsOf(after, k)[Len(RecordsOf(after, k))].id, text)

(***************************************************************************)
(* C2, as claimed: in each of the three flows, at the flow's confirm step,  *)
(* an utterance that is "yes", "y" or "confirm" after trimming and         *)
(* lowercasing makes handle call the flow's service exactly once and       *)
(* return a success reply with completed = true.                           *)
(***************************************************************************)
C2_AsClaimed ==
    \A u \in Utterances :
        AtConfirmStep /\ Lower(Strip(u)) \in {"yes", "y", "confirm"}
        => \A h \in {HandleOf(u)} :
               /\ CalledOnce(h.services, state.handler_key)
               /\ h.result.completed /\ ~h.result.error
               /\ MentionsNewId(h.services, state.handler_key, h.result.reply)

\* the replies each flow's confirm step takes as affirmative
AffirmativeFor ==
    [k \in HandlerKeys |->
        IF k = "advisor_message" THEN {"yes", "y", "send"} ELSE {"yes", "y", "confirm"}]

(***************************************************************************)
(* C2, amended: at the confirm step of Account Opening and of Money        *)
(* Transfer an utterance that is "yes", "y" or "confirm" after trimming    *)
(* and lowercasing, and at the confirm step of Advisor Messaging one that  *)
(* is "yes", "y" or "send", makes handle call the flow's service exactly   *)
(* once and return a success reply with completed = true.                  *)
(***************************************************************************)
C2_AffirmativeCommitsOnce ==
    \A u \in Utterances :
        AtConfirmStep /\ Lower(Strip(u)) \in AffirmativeFor[state.handler_key]
        => \A h \in {HandleOf(u)} :
               /\ CalledOnce(h.services, state.handler_key)
               /\ h.result.completed /\ ~h.result.error
               /\ MentionsNewId(h.services, state.handler_key, h.result.reply)

\* an advisor message was sent in the last turn
C2_Witness ==
    /\ path = "handle"
    /\ Len(messages) = 1
    /\ result.completed /\ ~result.error
    /\ reply = "All right, I've delivered that message. Your advisor will reply under ticket MSG0001."

(***************************************************************************)
(* C3: in every flow, a negative reply ("no", "n", "cancel" after trimming *)
(* and lowercasing) at the confirm step leaves the conversation inactive   *)
(* after handle_message and leaves every service's record list unchanged.  *)
(***************************************************************************)
C3_DeclineNeverCommits ==
    \A u \in Utterances :
        AtConfirmStep /\ Lower(Strip(u)) \in NegativeReplies
        => \A t \in {TurnOf(u)} :
               /\ ~Active(t.state)
               /\ t.services = CurrentServices

\* the user declined to send the advisor message in the last turn
C3_Witness ==
    /\ path = "handle"
    /\ ~Active(state)
    /\ messages = <<>>
    /\ reply = "Okay, I won't send that. Let me know if you want to try again."

(***************************************************************************)
(* C4: in every flow, after handle_message processes an affirmative reply  *)
(* at the confirm step the conversation state is fully cleared:            *)
(* intent_name, handler_key and step are null and slots is empty.          *)
(***************************************************************************)
C4_CompletionClearsState ==
    \A u \in Utterances :
        AtConfirmStep /\ Lower(Strip(u)) \in AffirmativeFor[state.handler_key]
        => \A t \in {TurnOf(u)} :
               /\ ~Active(t.state)
               /\ t.state.intent_name = NULL
               /\ t.state.handler_key = NULL
               /\ t.state.step = NULL
               /\ DOMAIN t.state.slots = {}

\* an account was opened in the last turn
C4_Witness ==
    /\ path = "handle"
    /\ Len(opened_accounts) = 1
    /\ state = NewConversationState
    /\ reply = "All set! Your new account (ACC0001) is ready. Is there anything else I can help you with?"

(***************************************************************************)
(* C5: from any conversation state, handle_message with an utterance whose *)
(* trimmed form is, case-insensitively, "cancel", "stop", "start over",    *)
(* "nevermind" or "never mind" resets the state to null fields and empty   *)
(* slots, returns the cancellation acknowledgment, stores nothing in slots *)
(* and calls no service.                                                   *)
(***************************************************************************)
C5_CancelResetsFromAnyState ==
    \A u \in Utterances :
        Lower(Strip(u)) \in {"cancel", "stop", "start over", "nevermind", "never mind"}
        => \A t \in {TurnOf(u)} :
               /\ t.state = [intent_name |-> NULL, handler_key |-> NULL, step |-> NULL,
                             slots |-> EmptySlots]
               /\ t.reply = "Okay, I've canceled the current request. How else can I help?"
               /\ t.services = CurrentServices
               /\ t.raised = NULL

\* the last turn canceled the conversation
C5_Witness ==
    /\ path = "cancel"
    /\ state = NewConversationState
    /\ reply = "Okay, I've canceled the current request. How else can I help?"

\* float(utterance.replace(",", "").strip()), the reading of a numeric answer
NumericReading(u) == ParseFloat(Strip(RemoveChar(u, ",")))

NumericSteps == {"collect_initial_deposit", "collect_amount"}

\* the utterance fails the validation of the current step
FailsValidation(u) ==
    IF state.step \in {"collect_full_name", "collect_from_account", "collect_topic",
                       "collect_message"}
    THEN Strip(u) = ""
    ELSE IF state.step = "collect_to_account"
    THEN Strip(u) = "" \/ Strip(u) = state.slots["from_account"]
    ELSE IF state.step = "collect_account_type"
    THEN Lower(Strip(u)) \notin {"checking", "savings"}
    ELSE IF state.step \in NumericSteps
    THEN ~NumericReading(u).ok \/ LessOrEqualZero(NumericReading(u).value)
    ELSE Lower(Strip(u)) \notin (AffirmativeFor[state.handler_key] \cup NegativeReplies)

(***************************************************************************)
(* C6: for every handler and every step, when handle rejects the utterance *)
(* (failed validation at a collect step, or a reply neither affirmative    *)
(* nor negative at the confirm step) it returns error = true and           *)
(* completed = false and leaves step, slots, intent_name and handler_key   *)
(* as they were, so that the same step is asked again; and it flags an     *)
(* error in no other case.                                                 *)
(***************************************************************************)
C6_RejectionKeepsState ==
    Active(state) =>
        \A u \in Utterances : \A h \in {HandleOf(u)} :
            /\ FailsValidation(u) =>
                   /\ h.result.error /\ ~h.result.completed
                   /\ h.state.step = state.step
                   /\ h.state.slots = state.slots
                   /\ h.state.intent_name = state.intent_name
                   /\ h.state.handler_key = state.handler_key
                   /\ h.services = CurrentServices
            /\ h.result.error => FailsValidation(u)

\* the last turn rejected an account type
C6_Witness ==
    /\ path = "handle"
    /\ result.error /\ ~result.completed
    /\ state.step = "collect_account_type"
    /\ DOMAIN state.slots = {"full_name"}
    /\ reply = "I didn't recognize that account type. Please choose one of the following: Checking, Savings."

(***************************************************************************)
(* C7: at the numeric steps (collect_initial_deposit, collect_amount) an   *)
(* input that does not parse as a number after removing commas and         *)
(* trimming never advances step and always returns error = true.           *)
(***************************************************************************)
C7_NonNumericRejected ==
    Active(state) /\ state.step \in NumericSteps =>
        \A u \in Utterances :
            ~NumericReading(u).ok
            => \A h \in {HandleOf(u)} :
                   /\ h.result.error
                   /\ h.state.step = state.step

\* the last turn could not read a transfer amount
C7_Witness ==
    /\ path = "handle"
    /\ result.error
    /\ state.step = "collect_amount"
    /\ reply = "I wasn't able to read that dollar amount. How much should I transfer?"

(***************************************************************************)
(* C8, as claimed: at the numeric steps step advances only if the input    *)
(* parses and the parsed value is strictly greater than zero, so the value *)
(* stored in the initial_deposit or amount slot, and later passed to the   *)
(* service, is always strictly greater than zero.                          *)
(***************************************************************************)
C8_AsClaimed ==
    /\ Active(state) /\ state.step \in NumericSteps =>
           \A u \in Utterances : \A h \in {HandleOf(u)} :
               h.state.step # state.step
               => NumericReading(u).ok /\ GreaterThanZero(NumericReading(u).value)
    /\ \A k \in {"initial_deposit", "amount"} \cap DOMAIN state.slots :
           GreaterThanZero(state.slots[k])

(***************************************************************************)
(* C9: in Money Transfer at step collect_to_account, a to_account equal to *)
(* the from_account already collected is always rejected, whatever its     *)
(* casing or content: the reply is the error for equal accounts, step      *)
(* stays collect_to_account and the to_account slot is not written.        *)
(***************************************************************************)
C9_SameAccountRejected ==
    Active(state) /\ state.handler_key = "money_transfer" /\ state.step = "collect_to_account" =>
        \A u \in Utterances :
            Strip(u) = state.slots["from_account"]
            => \A t \in {TurnOf(u)} :
                   /\ t.result.error
                   /\ t.reply = "The destination must be different from the source account. Where should the funds go?"
                   /\ t.state.step = "collect_to_account"
                   /\ "to_account" \notin DOMAIN t.state.slots
                   /\ t.state.slots = state.slots

\* the last turn rejected a destination equal to the source
C9_Witness ==
    /\ path = "handle"
    /\ state.step = "collect_to_account"
    /\ DOMAIN state.slots = {"from_account"}
    /\ reply = "The destination must be different from the source account. Where should the funds go?"

\* the flows as the data model lists them
FlowIntentName ==
    [k \in HandlerKeys |->
        IF k = "advisor_message" THEN "secure_advisor_message" ELSE k]

FlowFirstStep ==
    [k \in HandlerKeys |->
        IF k = "account_opening" THEN "collect_full_name"
        ELSE IF k = "money_transfer" THEN "collect_from_account"
        ELSE "collect_topic"]

FlowFirstPrompt ==
    [k \in HandlerKeys |->
        IF k = "account_opening" THEN "Sure, let's open a new account. What's your full name?"
        ELSE IF k = "money_transfer" THEN "Sure thing. Which account should the money come from?"
        ELSE "Happy to help. What would you like to discuss with your advisor?"]

(***************************************************************************)
(* C10: when a flow is active at any step and the utterance, not a cancel  *)
(* phrase, matches through the router an intent whose handler key differs  *)
(* from the active one, handle_message abandons the current flow:          *)
(* afterwards handler_key and intent_name are those of the matched flow,   *)
(* step is its first step, the slots collected before are gone, the reply  *)
(* is the matched flow's first prompt and no service was called.           *)
(***************************************************************************)
C10_RerouteStartsMatchedFlow ==
    Active(state) =>
        \A u \in Utterances :
            /\ Lower(Strip(u)) \notin {"cancel", "stop", "start over", "nevermind", "never mind"}
            /\ RouterMatch(intents, u) # 0
            /\ intents[RouterMatch(intents, u)].handler # state.handler_key
            => \A t \in {TurnOf(u)} : \A k \in {intents[RouterMatch(intents, u)].handler} :
                   /\ t.state.handler_key = k
                   /\ t.state.intent_name = FlowIntentName[k]
                   /\ t.state.step = FlowFirstStep[k]
                   /\ DOMAIN t.state.slots = {}
                   /\ t.reply = FlowFirstPrompt[k]
                   /\ t.services = CurrentServices

\* the last turn left another flow for Money Transfer
C10_Witness ==
    /\ path = "reroute"
    /\ state.handler_key = "money_transfer"
    /\ state.step = "collect_from_account"
    /\ DOMAIN state.slots = {}
    /\ reply = "Sure thing. Which account should the money come from?"

(***************************************************************************)
(* C13: handle_message with an utterance that is empty after trimming      *)
(* returns the "need more detail" prompt and leaves intent_name,           *)
(* handler_key, step and slots untouched, whether or not a flow is active; *)
(* no handler produces a result and no service is called.                  *)
(***************************************************************************)
C13_EmptyUtteranceTouchesNothing ==
    \A u \in Utterances :
        Strip(u) = ""
        => \A t \in {TurnOf(u)} :
               /\ t.reply = "Could you share more detail so I can help?"
               /\ t.state = state
               /\ t.services = CurrentServices
               /\ t.result = NoResult
               /\ t.raised = NULL
               /\ t.path = "empty"

\* the last turn was an empty utterance while Account Opening waited for
\* the name
C13_Witness ==
    /\ path = "empty"
    /\ Active(state)
    /\ state.step = "collect_full_name"
    /\ reply = "Could you share more detail so I can help?"

CancelPhrases == {"cancel", "stop", "start over", "nevermind", "never mind"}

FallbackReply ==
    "I'm not sure how to help with that just yet, but I can open accounts, transfer funds, or message your advisor."

(***************************************************************************)
(* C14: when no flow is active and the utterance, non-empty and not a      *)
(* cancel phrase, matches no intent, handle_message returns the fixed      *)
(* fallback reply that lists the capabilities and leaves the conversation  *)
(* state unchanged: still inactive, with empty slots.                      *)
(***************************************************************************)
C14_RoutingMissFallsBack ==
    ~Active(state) =>
        \A u \in Utterances :
            /\ Strip(u) # ""
            /\ Lower(Strip(u)) \notin CancelPhrases
            /\ RouterMatch(intents, u) = 0
            => \A t \in {TurnOf(u)} :
                   /\ t.reply = FallbackReply
                   /\ t.state = state
                   /\ ~Active(t.state)
                   /\ DOMAIN t.state.slots = {}
                   /\ t.services = CurrentServices
                   /\ t.raised = NULL

\* the last turn matched no intent while no flow was active
C14_Witness ==
    /\ path = "fallback"
    /\ reply = FallbackReply
    /\ result.error
    /\ state = NewConversationState

(***************************************************************************)
(* C16: within one flow activation (between a start and the next reset or  *)
(* start) the set of slot keys never shrinks from one turn to the next,    *)
(* and after every reset, as after every start, slots is empty.            *)
(***************************************************************************)
C16_SlotsAccumulate ==
    /\ ~Active(state) => DOMAIN state.slots = {}
    /\ \A u \in Utterances : \A t \in {TurnOf(u)} :
           /\ Active(state) /\ Active(t.state) /\ t.path \in {"handle", "empty"}
              => DOMAIN state.slots \subseteq DOMAIN t.state.slots
           /\ ~Active(t.state) \/ t.path \in {"cancel", "reroute", "start"}
              => DOMAIN t.state.slots = {}

\* the last turn added the destination to the source already collected
C16_Witness ==
    /\ path = "handle"
    /\ state.step = "collect_amount"
    /\ DOMAIN state.slots = {"from_account", "to_account"}

\* the fixed sequence of each flow: the step after each step, NULL after the
\* confirm step
Successor ==
    [step \in FlowSteps |->
        CASE step = "collect_full_name" -> "collect_account_type"
          [] step = "collect_account_type" -> "collect_initial_deposit"
          [] step = "collect_initial_deposit" -> "confirm_submission"
          [] step = "collect_from_account" -> "collect_to_account"
          [] step = "collect_to_account" -> "collect_amount"
          [] step = "collect_amount" -> "confirm_transfer"
          [] step = "collect_topic" -> "collect_message"
          [] step = "collect_message" -> "confirm_message"
          [] OTHER -> NULL]

\* the slots written when a step is reached: one for every collect step
\* before it
CollectedBefore ==
    [step \in FlowSteps |->
        CASE step = "collect_account_type" -> {"full_name"}
          [] step = "collect_initial_deposit" -> {"full_name", "account_type"}
          [] step = "confirm_submission" -> {"full_name", "account_type", "initial_deposit"}
          [] step = "collect_to_account" -> {"from_account"}
          [] step = "collect_amount" -> {"from_account", "to_account"}
          [] step = "confirm_transfer" -> {"from_account", "to_account", "amount"}
          [] step = "collect_message" -> {"topic"}
          [] step = "confirm_message" -> {"topic", "message"}
          [] OTHER -> {}]

\* the steps of the flow with handler key k
StepsOf ==
    [k \in HandlerKeys |->
        IF k = "account_opening"
        THEN {"collect_full_name", "collect_account_type", "collect_initial_deposit",
              "confirm_submission"}
        ELSE IF k = "money_transfer"
        THEN {"collect_from_account", "collect_to_account", "collect_amount",
              "confirm_transfer"}
        ELSE {"collect_topic", "collect_message", "confirm_message"}]

(***************************************************************************)
(* C17: within one flow activation step only changes from a step to its    *)
(* immediate successor in the flow's fixed sequence, at most one step per  *)
(* turn; no step is skipped or revisited, and a step, the confirm step     *)
(* included, is reached only after every collect step before it has        *)
(* accepted a value.                                                       *)
(***************************************************************************)
C17_StepsInSequence ==
    Active(state) =>
        /\ state.handler_key \in HandlerKeys
        /\ state.step \in StepsOf[state.handler_key]
        /\ DOMAIN state.slots = CollectedBefore[state.step]
        /\ \A u \in Utterances : \A t \in {TurnOf(u)} :
               Active(t.state) /\ t.path \in {"handle", "empty"}
               => /\ t.state.handler_key = state.handler_key
                  /\ t.state.step \in {state.step, Successor[state.step]}

\* the last turn accepted the deposit and reached the confirm step of
\* Account Opening
C17_Witness ==
    /\ path = "handle"
    /\ ~result.error
    /\ state.step = "confirm_submission"
    /\ DOMAIN state.slots = {"full_name", "account_type", "initial_deposit"}

(***************************************************************************)
(* C19: when a flow is active and the utterance matches an intent whose    *)
(* handler key is the active one, handle_message neither restarts nor      *)
(* reroutes the flow: the utterance goes to the active handler as the      *)
(* input of the current step, so the flow keeps its slots and the step is  *)
(* validated against that utterance.                                       *)
(***************************************************************************)
C19_SameIntentIsStepInput ==
    Active(state) =>
        \A u \in Utterances :
            /\ Strip(u) # ""
            /\ Lower(Strip(u)) \notin CancelPhrases
            /\ RouterMatch(intents, u) # 0
            /\ intents[RouterMatch(intents, u)].handler = state.handler_key
            => \A t \in {TurnOf(u)} : \A h \in {HandleOf(u)} :
                   /\ t.path = "handle"
                   /\ t.result = h.result
                   /\ t.reply = h.result.reply
                   /\ t.services = h.services
                   /\ t.state = IF h.result.completed THEN Reset(h.state) ELSE h.state
                   /\ ~h.result.completed =>
                          /\ t.state.handler_key = state.handler_key
                          /\ \A k \in DOMAIN state.slots :
                                 k \in DOMAIN t.state.slots /\ t.state.slots[k] = state.slots[k]
                          /\ t.state.step \in {state.step, Successor[state.step]}

\* Account Opening took "open account" as the full name in the last turn
C19_Witness ==
    /\ path = "handle"
    /\ state.handler_key = "account_opening"
    /\ state.step = "collect_account_type"
    /\ state.slots["full_name"] = "open account"

(***************************************************************************)
(* C20: a conversation goes from active to inactive only in a turn that is *)
(* a cancel phrase, an affirmative or negative reply at the confirm step,  *)
(* or a defensive fault (unknown step, unregistered active handler); in    *)
(* every other turn an active conversation stays active, in the same flow  *)
(* or, after a reroute, in the flow newly matched.                         *)
(***************************************************************************)
C20_EndsOnlyByCancelOrConfirm ==
    Active(state) =>
        \A u \in Utterances : \A t \in {TurnOf(u)} :
            /\ ~Active(t.state) =>
                   \/ Lower(Strip(u)) \in CancelPhrases
                   \/ /\ AtConfirmStep
                      /\ Lower(Strip(u)) \in AffirmativeFor[state.handler_key] \cup NegativeReplies
                   \/ state.handler_key \notin HandlerKeys
                   \/ state.step \notin StepsOf[state.handler_key]
            /\ Active(t.state) =>
                   \/ /\ t.path \in {"handle", "empty"}
                      /\ t.state.handler_key = state.handler_key
                      /\ t.state.intent_name = state.intent_name
                   \/ /\ t.path = "reroute"
                      /\ RouterMatch(intents, u) # 0
                      /\ t.state.handler_key = intents[RouterMatch(intents, u)].handler
                      /\ t.state.handler_key # state.handler_key

\* the user declined the account application in the last turn
C20_Witness ==
    /\ path = "handle"
    /\ ~Active(state)
    /\ opened_accounts = <<>>
    /\ reply = "No problem, I won't submit that application. Let me know if you need anything else."

\* the arguments of the service of the flow with handler key k
ServiceArguments ==
    [k \in HandlerKeys |->
        IF k = "account_opening" THEN {"full_name", "account_type", "initial_deposit"}
        ELSE IF k = "money_transfer" THEN {"from_account", "to_account", "amount"}
        ELSE {"topic", "message"}]

NumericSlots == {"initial_deposit", "amount"}

\* the value a handler makes of the text raw it accepts for slot a, amounts
\* written with two decimals as the services record them
AcceptedValue(a, raw) ==
    IF a = "account_type" THEN Lower(Strip(raw))
    ELSE IF a \in NumericSlots THEN Format2f(NumericReading(raw).value)
    ELSE Strip(raw)

\* slot a of the current state, amounts written with two decimals
SlotText(a) ==
    IF a \in NumericSlots THEN Format2f(state.slots[a]) ELSE state.slots[a]

\* the service of flow k was called in the turn that leaves the services as
\* after
Invoked(after, k) == RecordsOf(after, k) # RecordsOf(CurrentServices, k)

\* the record the last call of the service of flow k appended
LastRecord(after, k) == RecordsOf(after, k)[Len(RecordsOf(after, k))]

Intent(name, handler, keywords) ==
    [name |-> name, handler |-> handler, keywords |-> keywords, entities |-> NoEntities]

\* intent definitions as a configuration file may hold them: none, intents
\* sharing a keyword, an intent without keywords, keywords in upper case, an
\* empty keyword, a keyword of one space
RawCatalogs ==
    { RawIntents,
      << >>,
      << Intent("a", "account_opening", <<"account">>),
         Intent("b", "money_transfer", <<"open account">>) >>,
      << Intent("a", "account_opening", << >>),
         Intent("b", "money_transfer", <<"Transfer", "PAY">>) >>,
      << Intent("a", "advisor_message", <<"advisor">>),
         Intent("b", "money_transfer", <<"pay", "transfer">>),
         Intent("c", "account_opening", <<"transfer", "a">>) >>,
      << Intent("a", "money_transfer", <<"transfer money">>),
         Intent("b", "money_transfer", <<"transfer">>),
         Intent("c", "loans", <<"hello">>) >>,
      << Intent("a", "account_opening", <<"open">>),
         Intent("b", "money_transfer", <<"">>) >>,
      << Intent("a", "account_opening", <<" ">>),
         Intent("b", "advisor_message", <<"advisor">>) >>,
      << Intent("a", "advisor_message", <<"x">>) >> }

\* the utterances match is called with
RouterUtterances ==
    { "", " ", "  ", "open account", "Open a NEW account", "Transfer money", "pay",
      "contact advisor", "TRANSFER to my advisor", "hello", "x", "a", "accounts" }

InitRouter ==
    /\ state = NewConversationState
    /\ opened_accounts = <<>>
    /\ transfers = <<>>
    /\ messages = <<>>
    /\ intents \in {load_intents(raw) : raw \in RawCatalogs}
    /\ reply = NULL
    /\ result = NoResult
    /\ raised = NULL
    /\ path = "none"
    /\ asked = NULL
    /\ matched = 0
    /\ activation = NoActivation

\* one call of router.match(utterance)
Match(utterance) ==
    /\ asked' = utterance
    /\ matched' = RouterMatch(intents, utterance)
    /\ path' = "match"
    /\ UNCHANGED <<state, opened_accounts, transfers, messages, intents, reply, result,
                   raised, activation>>

NextRouter == \E utterance \in RouterUtterances : Match(utterance)

RouterSpec == InitRouter /\ [][NextRouter]_vars

\* the positions of the intents with a keyword occurring in the lowercased u
Hits(u) ==
    {i \in 1..Len(intents) :
        \E j \in 1..Len(intents[i].keywords) : Contains(intents[i].keywords[j], Lower(u))}

(***************************************************************************)
(* C11: for every non-empty utterance and every intent catalog, match      *)
(* returns the first intent in catalog order that has a keyword occurring  *)
(* as a substring of the lowercased utterance, and returns none exactly    *)
(* when no intent has such a keyword; the conversation state and the       *)
(* services are after the call as they were constructed.                   *)
(***************************************************************************)
C11_FirstMatchWins ==
    /\ \A u \in RouterUtterances \ {""} : \A m \in {RouterMatch(intents, u)} :
           /\ m = 0 <=> Hits(u) = {}
           /\ m # 0 => m \in Hits(u) /\ \A i \in Hits(u) : m <= i
    /\ path = "match" /\ asked # "" =>
           /\ matched = 0 <=> Hits(asked) = {}
           /\ matched # 0 => matched \in Hits(asked) /\ \A i \in Hits(asked) : matched <= i
    /\ state = NewConversationState
    /\ opened_accounts = <<>> /\ transfers = <<>> /\ messages = <<>>

\* match returned the first of two intents that both have a keyword in the
\* utterance
C11_Witness ==
    /\ path = "match"
    /\ asked = "TRANSFER to my advisor"
    /\ matched = 1
    /\ Hits(asked) = {1, 2, 3}

(***************************************************************************)
(* C12, as claimed: match returns none for every empty or whitespace-only  *)
(* utterance, whatever keywords the intent catalog contains.               *)
(***************************************************************************)
C12_AsClaimed == path = "match" /\ Strip(asked) = "" => matched = 0

(***************************************************************************)
(* handler.start called directly on a range of prior conversation states.  *)
(***************************************************************************)
\* slots a conversation state may hold before start
PriorSlots ==
    { EmptySlots,
      [k \in {"full_name"} |-> "Ada Lovelace"],
      [k \in {"from_account", "to_account"} |->
          IF k = "from_account" THEN "CHK-001" ELSE "SAV-002"],
      [k \in {"topic", "message", "note"} |-> "retirement"] }

\* conversation states before start: inactive or in a flow, at no step or at
\* a step of any flow, with slots of any flow
PriorStates ==
    { [intent_name |-> FlowIntentName[k], handler_key |-> k, step |-> step, slots |-> slots] :
          k \in HandlerKeys, step \in FlowSteps \cup {NULL}, slots \in PriorSlots }
    \cup
    { [intent_name |-> NULL, handler_key |-> NULL, step |-> step, slots |-> slots] :
          step \in FlowSteps \cup {NULL}, slots \in PriorSlots }

InitStart ==
    /\ state \in PriorStates
    /\ opened_accounts = <<>>
    /\ transfers = <<>>
    /\ messages = <<>>
    /\ intents = load_intents(RawIntents)
    /\ reply = NULL
    /\ result = NoResult
    /\ raised = NULL
    /\ path = "none"
    /\ asked = NULL
    /\ matched = 0
    /\ activation = NoActivation

\* one call of handler.start(state) on the handler registered under key
StartFlow(key) ==
    /\ \E s \in {Start(key, state, AccountTypes(intents))} :
           /\ state' = s.state
           /\ result' = s.result
           /\ reply' = s.result.reply
    /\ path' = "start"
    /\ UNCHANGED <<opened_accounts, transfers, messages, intents, raised, asked, matched,
                   activation>>

NextStart == \E key \in HandlerKeys : StartFlow(key)

StartSpec == InitStart /\ [][NextStart]_vars

\* what start of the flow with handler key k has to leave and return
StartedAs(k, st, res) ==
    /\ st.intent_name = FlowIntentName[k]
    /\ st.handler_key = k
    /\ st.step = FlowFirstStep[k]
    /\ DOMAIN st.slots = {}
    /\ res = [reply |-> FlowFirstPrompt[k], completed |-> FALSE, error |-> FALSE]

(***************************************************************************)
(* C15: for all three flows and any prior state (inactive, or in the same  *)
(* or another flow, with any slots), start sets intent_name and            *)
(* handler_key to the handler's identity, step to the flow's first step,   *)
(* leaves slots empty and returns the first step's prompt with             *)
(* completed = false and error = false.                                    *)
(***************************************************************************)
C15_StartFromAnyState ==
    /\ \A k \in HandlerKeys : \A s \in {Start(k, state, AccountTypes(intents))} :
           StartedAs(k, s.state, s.result)
    /\ path = "start" => StartedAs(state.handler_key, state, result)

\* Money Transfer was started in the last step
C15_Witness ==
    /\ path = "start"
    /\ state.handler_key = "money_transfer"
    /\ state.step = "collect_from_account"
    /\ state.slots = EmptySlots
    /\ reply = "Sure thing. Which account should the money come from?"

(***************************************************************************)
(* The in-memory services called directly.                                 *)
(***************************************************************************)
InitServices ==
    /\ state = NewConversationState
    /\ opened_accounts = <<>>
    /\ transfers = <<>>
    /\ messages = <<>>
    /\ intents = load_intents(RawIntents)
    /\ reply = NULL
    /\ result = NoResult
    /\ raised = NULL
    /\ path = "none"
    /\ asked = NULL
    /\ matched = 0
    /\ activation = NoActivation

\* account_service.open_account(...); reply is the identifier returned
OpenAccount(full_name, account_type, initial_deposit) ==
    /\ Commits < MaxRecords
    /\ \E call \in {open_account(opened_accounts, full_name, account_type, initial_deposit)} :
           /\ opened_accounts' = call.records
           /\ reply' = call.id
    /\ path' = "open_account"
    /\ UNCHANGED <<state, transfers, messages, intents, result, raised, asked, matched,
                   activation>>

\* transfer_service.transfer(...)
Transfer(from_account, to_account, amount) ==
    /\ Commits < MaxRecords
    /\ \E call \in {transfer(transfers, from_account, to_account, amount)} :
           /\ transfers' = call.records
           /\ reply' = call.id
    /\ path' = "transfer"
    /\ UNCHANGED <<state, opened_accounts, messages, intents, result, raised, asked, matched,
                   activation>>

\* messaging_service.send_message(...)
SendMessage(topic, message) ==
    /\ Commits < MaxRecords
    /\ \E call \in {send_message(messages, topic, message)} :
           /\ messages' = call.records
           /\ reply' = call.id
    /\ path' = "send_message"
    /\ UNCHANGED <<state, opened_accounts, transfers, intents, result, raised, asked, matched,
                   activation>>

NextServices ==
    \/ \E account_type \in {"checking", "savings"} :
           OpenAccount("Ada Lovelace", account_type, ParseFloat("1500").value)
    \/ \E to_account \in {"SAV-002", "CHK-009"} :
           Transfer("CHK-001", to_account, ParseFloat("250.5").value)
    \/ \E topic \in {"fees", "retirement"} : SendMessage(topic, "Please call me.")

ServiceSpec == InitServices /\ [][NextServices]_vars

\* the prefix and the four-digit form of the sequence numbers 1 to 9
SequenceId(prefix, k) == prefix \o "000" \o CharAt("123456789", k)

\* the service and the position of every record held
IssuedIds ==
    {p \in HandlerKeys \X (1..MaxRecords) : p[2] <= Len(RecordsOf(CurrentServices, p[1]))}

(***************************************************************************)
(* C18: with the in-memory services the k-th account opening returns       *)
(* "ACC" followed by k zero-padded to four digits, starting at ACC0001,    *)
(* likewise TRX for transfers and MSG for advisor messages, and the        *)
(* identifiers returned over any sequence of calls are pairwise distinct.  *)
(***************************************************************************)
C18_SequentialIdentifiers ==
    /\ \A i \in 1..Len(opened_accounts) : opened_accounts[i].id = SequenceId("ACC", i)
    /\ \A i \in 1..Len(transfers) : transfers[i].id = SequenceId("TRX", i)
    /\ \A i \in 1..Len(messages) : messages[i].id = SequenceId("MSG", i)
    /\ path = "open_account" => reply = opened_accounts[Len(opened_accounts)].id
    /\ path = "transfer" => reply = transfers[Len(transfers)].id
    /\ path = "send_message" => reply = messages[Len(messages)].id
    /\ \A a, b \in IssuedIds :
           RecordsOf(CurrentServices, a[1])[a[2]].id = RecordsOf(CurrentServices, b[1])[b[2]].id
           => a = b

\* the second account was opened in the last step
C18_Witness ==
    /\ path = "open_account"
    /\ Len(opened_accounts) = 2
    /\ reply = "ACC0002"
    /\ opened_accounts[1].id = "ACC0001"

(***************************************************************************)
(* The engine constructed with a conversation state supplied by the caller *)
(* (the parameter state of ChatbotEngine.__init__) and with a catalog that *)
(* names a handler _build_handlers does not register.                      *)
(***************************************************************************)
\* the catalog with one more intent, whose handler key is not registered
UnregisteredIntents ==
    RawIntents \o << Intent("loan_application", "loans", <<"loan">>) >>

\* states no sequence of turns produces: a registered handler at a step that
\* is not one of its own (null, a name no flow has, a step of another flow),
\* and an active flow whose handler key is not registered or null
SuppliedStates ==
    { st \in [intent_name : {FlowIntentName[k] : k \in HandlerKeys},
              handler_key : HandlerKeys,
              step : FlowSteps \cup {NULL, "review"},
              slots : PriorSlots] :
          /\ st.intent_name = FlowIntentName[st.handler_key]
          /\ st.step \notin StepsOf[st.handler_key] }
    \cup
    { [intent_name |-> "loan_application", handler_key |-> key, step |-> step,
       slots |-> slots] :
          key \in {"loans", NULL}, step \in {NULL, "collect_amount"}, slots \in PriorSlots }
    \cup { NewConversationState }

\* the utterances the turns of this engine are explored with
SuppliedUtterances ==
    { "", "cancel", "yes", "hello", "open account", "Transfer money", "apply for a loan",
      " CHK-001 " }

InitSupplied ==
    /\ state \in SuppliedStates
    /\ opened_accounts = <<>>
    /\ transfers = <<>>
    /\ messages = <<>>
    /\ intents = load_intents(UnregisteredIntents)
    /\ reply = NULL
    /\ result = NoResult
    /\ raised = NULL
    /\ path = "none"
    /\ asked = NULL
    /\ matched = 0
    /\ activation = NoActivation

NextSupplied == \E utterance \in SuppliedUtterances : HandleMessage(utterance)

SuppliedSpec == InitSupplied /\ [][NextSupplied]_vars

\* the utterances the properties of this engine range over
AllUtterances == Utterances \cup SuppliedUtterances

\* the utterance reaches the lookup of the active handler: it is not empty,
\* not a cancel phrase, and the reroute check lets it through
ReachesActiveHandler(u) ==
    /\ Active(state)
    /\ Strip(u) # ""
    /\ Lower(Strip(u)) \notin CancelPhrases
    /\ \/ RouterMatch(intents, u) = 0
       \/ intents[RouterMatch(intents, u)].handler = state.handler_key

\* the terminal replies of the three handle methods for a step they do not
\* know
UnknownStepReply ==
    [k \in HandlerKeys |->
        IF k = "account_opening" THEN "Let's restart that account application."
        ELSE IF k = "money_transfer" THEN "Let's cancel that transfer for now."
        ELSE "Let's try composing that message again later."]

(***************************************************************************)
(* C21: in every handler, handle called with a step that is not one of the *)
(* handler's step names (null included) returns a terminal error reply     *)
(* with completed = true and error = true and calls no service, and        *)
(* handle_message then resets the conversation state to inactive.          *)
(***************************************************************************)
C21_UnknownStepIsTerminal ==
    state.handler_key \in HandlerKeys /\ state.step \notin StepsOf[state.handler_key] =>
        \A u \in AllUtterances :
            /\ \A h \in {HandleOf(u)} :
                   /\ h.result = [reply |-> UnknownStepReply[state.handler_key],
                                  completed |-> TRUE, error |-> TRUE]
                   /\ h.services = CurrentServices
            /\ ReachesActiveHandler(u) =>
                   \A t \in {TurnOf(u)} :
                       /\ t.reply = UnknownStepReply[state.handler_key]
                       /\ ~Active(t.state)
                       /\ t.state = NewConversationState
                       /\ t.services = CurrentServices
                       /\ t.raised = NULL

\* the last turn found Money Transfer at a step it does not know
C21_Witness ==
    /\ path = "handle"
    /\ result.completed /\ result.error
    /\ reply = "Let's cancel that transfer for now."
    /\ state = NewConversationState

\* the handler key of the intent the router matches u with, null for no match
MatchedHandler(u) ==
    IF RouterMatch(intents, u) = 0 THEN NULL ELSE intents[RouterMatch(intents, u)].handler

\* the utterance reaches a lookup of the handler of a matched intent: it is
\* not empty and not a cancel phrase, the router matches it, and no flow is
\* active or the reroute check finds a handler key other than the active one
ReachesMatchedHandler(u) ==
    /\ Strip(u) # ""
    /\ Lower(Strip(u)) \notin CancelPhrases
    /\ RouterMatch(intents, u) # 0
    /\ Active(state) => MatchedHandler(u) # state.handler_key

\* the turn failed with HandlerNotFoundError: no reply, no handler result, no
\* service called
FailedHandlerNotFound(t) ==
    /\ t.raised = "HandlerNotFoundError"
    /\ t.reply = NULL
    /\ t.result = NoResult
    /\ t.services = CurrentServices

RegisteredCatalogs ==
    { raw \in RawCatalogs : \A i \in 1..Len(raw) : raw[i].handler \in HandlerKeys }

InitCatalogs ==
    /\ state = NewConversationState
    /\ opened_accounts = <<>>
    /\ transfers = <<>>
    /\ messages = <<>>
    /\ intents \in {load_intents(raw) : raw \in RegisteredCatalogs}
    /\ reply = NULL
    /\ result = NoResult
    /\ raised = NULL
    /\ path = "none"
    /\ asked = NULL
    /\ matched = 0
    /\ activation = NoActivation

NextCatalogs == \E utterance \in Inputs(state) : HandleMessage(utterance)

CatalogSpec == InitCatalogs /\ [][NextCatalogs]_vars

\* the replies of handle and of the prompt dispatch for a step they do not
\* know
UnknownStepReplies ==
    { UnknownStepReply[k] : k \in HandlerKeys }
    \cup { "I'm not sure what to ask next. Let's start over.",
           "I'm not sure how to proceed with that transfer. Let's start again.",
           "I ran into an issue preparing that advisor message. Let's start over." }

(***************************************************************************)
(* C22: from an empty conversation state, driven only through              *)
(* handle_message with any utterances and any catalog whose handler keys   *)
(* are registered, the unknown-step fallback is never reached: whenever a  *)
(* handler's handle or prompt dispatch runs, state.step is one of that     *)
(* handler's own step names.                                               *)
(***************************************************************************)
C22_UnknownStepNeverReached ==
    /\ raised = NULL
    /\ reply \notin UnknownStepReplies
    /\ result.reply \notin UnknownStepReplies
    /\ Active(state) =>
           /\ state.handler_key \in HandlerKeys
           /\ state.step \in StepsOf[state.handler_key]
    /\ \A u \in Utterances : \A t \in {TurnOf(u)} :
           /\ t.raised = NULL
           /\ t.reply \notin UnknownStepReplies
           /\ t.result.reply \notin UnknownStepReplies
           /\ t.path \in {"start", "reroute"} =>
                  /\ t.state.handler_key \in HandlerKeys
                  /\ t.state.step = FlowFirstStep[t.state.handler_key]

\* under a catalog other than the shipped one, the last turn was handled by
\* Money Transfer, which then asked the prompt of its confirm step
C22_Witness ==
    /\ intents # load_intents(RawIntents)
    /\ path = "handle"
    /\ ~result.error
    /\ Active(state)
    /\ state.step = "confirm_transfer"

(***************************************************************************)
(* C24: after every handle_message call of any sequence from an empty      *)
(* state the conversation state is either inactive (intent_name,           *)
(* handler_key and step null, slots empty) or active with intent_name and  *)
(* handler_key those of one registered handler, step one of that handler's *)
(* steps, and the slot keys exactly the slots of the steps before step.    *)
(***************************************************************************)
C24_StateShape ==
    \/ /\ state.intent_name = NULL
       /\ state.handler_key = NULL
       /\ state.step = NULL
       /\ state.slots = EmptySlots
    \/ /\ state.handler_key \in HandlerKeys
       /\ state.intent_name = FlowIntentName[state.handler_key]
       /\ state.step \in StepsOf[state.handler_key]
       /\ DOMAIN state.slots = CollectedBefore[state.step]

\* the last turn was answered by Advisor Messaging, which stored the topic
C24_Witness ==
    /\ path = "handle"
    /\ state.intent_name = "secure_advisor_message"
    /\ state.handler_key = "advisor_message"
    /\ state.step = "collect_message"
    /\ DOMAIN state.slots = {"topic"}

=============================================================================
